---- MODULE Spec2Model ----
(***************************************************************************)
(* Exchange-rates report generator: the local cache of daily exchange      *)
(* rates (database_communication_service), its reconciliation with the     *)
(* NBP API (data_collection_service, api_communication_service) and the    *)
(* analytics over the cached rows (report_generator_service).              *)
(*                                                                         *)
(* Dates are day numbers (datetime.date minus a fixed origin), so          *)
(* timedelta(days=n) is the integer n.  Rates are integers: the code only  *)
(* compares, subtracts and stores them.                                    *)
(***************************************************************************)
EXTENDS Integers, Sequences, FiniteSets, Bags, TLC

VARIABLES
    db,             \* rows of the exchange_rates table: a bag of records
    op,             \* the last store operation and its argument
    first_merged,   \* history: the first record merged under each key
    read_result     \* chunks returned by the last read of the store

storeVars == <<db, op, first_merged, read_result>>

VARIABLES
    pc,                     \* where gather_data_for_date_range stands
    start_date,             \* the requested range and currencies (<<>> is None)
    end_date,
    currency_codes,
    nbp,                    \* the dates the NBP server holds a table for
    db0,                    \* history: the table when the query started
    covered,                \* history: the dates the coverage scan reported
    missing_dates_ranges,   \* result of _calculate_missing_date_intervals
    sent,                   \* the requests sent so far, in order
    last_send,              \* the last request's reply and what the call returned
    response,               \* the responses chained so far
    consumed,               \* responses the loop of _collect_... has taken
    data_collected

gatherVars == <<pc, start_date, end_date, currency_codes, nbp, db0, covered,
                missing_dates_ranges, sent, last_send, response, consumed,
                data_collected>>

VARIABLES
    df_iter,            \* the chunks handed to the report generator
    analytical_data     \* what _get_largest_exchange_rate_increase_and_decrease returned

reportVars == <<df_iter, analytical_data>>

VARIABLES
    merging,            \* the merges started: each its input_data and the rows written
    rate_series,        \* the rates handed to _find_largest_increase_and_decrease
    largest             \* what it returned: <<>> before the call, <<result>> after

callVars == <<merging, rate_series, largest>>

VARIABLES
    args,               \* the parsed command line: start_date and end_date
    today,              \* datetime.now().date() while the arguments are validated
    report_type,        \* the report type handed to generate_report
    extension,          \* Path(report_path).suffix
    invoked,            \* the report writers called, in call order
    json_report         \* the list _generate_json_report_with_historical_data dumps

mainVars == <<args, today, report_type, extension, invoked, json_report>>

vars == <<storeVars, gatherVars, reportVars, callVars, mainVars>>

----------------------------------------------------------------------------
(* Bounds of the model *)

\* Dates of the store model are 0..MaxStoreDay.
MaxStoreDay == 1

\* Dates of a query of the gather model are 0..MaxDay.
MaxDay == 2

\* The longest range handed to the fetcher ends MaxSpan days after its start.
MaxSpan == 190

\* rows per chunk of pandas.read_sql in _DatabaseOp._select
chunksize == 100

\* Dates of the gap calculator's own model are 0..MaxGapDay.
MaxGapDay == 5

\* The report model reads at most MaxRows rows.
MaxRows == 4

\* merges that run at the same time, and the last day of their records
MaxMerges == 2

MaxMergeDay == 0

\* the longest rate series handed to _find_largest_increase_and_decrease
MaxSeriesLen == 5

\* max_len of request_data_from_nbp_database: the longest span of one request
max_len == 93

----------------------------------------------------------------------------
(* Values *)

None == "None"

\* services/variables.py lists 33 codes; the model keeps two of them, in the
\* alphabetical order the store's ORDER BY currency_code gives.
AVAILABLE_CURRENCIES == <<"EUR", "USD">>

Codes == {AVAILABLE_CURRENCIES[i] : i \in DOMAIN AVAILABLE_CURRENCIES}

Rates == {1, 2}

CodeRank(c) == CHOOSE i \in DOMAIN AVAILABLE_CURRENCIES : AVAILABLE_CURRENCIES[i] = c

SeqToSet(s) == {s[i] : i \in DOMAIN s}

\* the dates of the closed range [start, end]
DatesOf(start, end) == start .. end

\* ExchangeRates: one row of the table
ExchangeRates(d, c, r) == [date |-> d, currency_code |-> c, currency_rate |-> r]

\* the primary key of a row: (date, currency_code)
Key(row) == <<row.date, row.currency_code>>

Rows(table) == BagToSet(table)

StoredKeys(table) == {Key(row) : row \in Rows(table)}

\* The set's elements as an ascending sequence.
RECURSIVE SortedDates(_)
SortedDates(S) ==
    IF S = {} THEN <<>>
    ELSE LET m == CHOOSE x \in S : \A y \in S : x <= y
         IN  <<m>> \o SortedDates(S \ {m})

\* ORDER BY currency_code, date
RowBefore(a, b) ==
    \/ CodeRank(a.currency_code) < CodeRank(b.currency_code)
    \/ /\ a.currency_code = b.currency_code
       /\ a.date <= b.date

RECURSIVE SortedRows(_)
SortedRows(S) ==
    IF S = {} THEN <<>>
    ELSE LET m == CHOOSE x \in S : \A y \in S : RowBefore(x, y)
         IN  <<m>> \o SortedRows(S \ {m})

----------------------------------------------------------------------------
(* database_communication_service: the store *)

\* One row of an INSERT ... ON CONFLICT DO NOTHING: a row whose primary key
\* is already in the table is skipped.
InsertRowAlways(table, row) == table (+) SetToBag({row})

InsertRowOverwrite(table, row) ==
    LET kept == {r \in Rows(table) : Key(r) # Key(row)}
    IN  SetToBag(kept \cup {row})

InsertRow(table, row) ==
    IF Key(row) \in StoredKeys(table) THEN table
    ELSE table (+) SetToBag({row})

\* _DatabaseOp.insert: the rows of input_data are inserted in order by one
\* statement, then committed.
RECURSIVE insert(_, _)
insert(table, input_data) ==
    IF input_data = <<>> THEN table
    ELSE insert(InsertRow(table, Head(input_data)), Tail(input_data))

\* _DatabaseOp._select: pandas.read_sql(chunksize=100) yields the result in
\* chunks of at most chunksize rows, and one empty chunk for an empty result.
RECURSIVE SplitRows(_, _)
SplitRows(rows, n) ==
    IF Len(rows) <= n THEN <<rows>>
    ELSE <<SubSeq(rows, 1, n)>> \o SplitRows(SubSeq(rows, n + 1, Len(rows)), n)

_select(rows) == SplitRows(rows, chunksize)

\* select_all_data_between_dates / select_specific_currency_data_between_dates
\* behind get_exchange_rates_data_from_database; codes = <<>> is None
get_exchange_rates_data_from_database(table, start, end, codes) ==
    LET hit == {r \in Rows(table) :
                  /\ start <= r.date /\ r.date <= end
                  /\ (codes # <<>> => r.currency_code \in SeqToSet(codes))}
    IN  _select(SortedRows(hit))

\* select_distinct_dates_for_all_between_dates /
\* select_distinct_dates_for_specific_currency_between_dates behind
\* get_dates_with_records: GROUP BY date HAVING count(currency_code) >= n
DateCount(table, d, codes) ==
    LET hit == {r \in Rows(table) :
                  /\ r.date = d
                  /\ (codes # <<>> => r.currency_code \in SeqToSet(codes))}
    IN  Cardinality(hit)

\* as RequiredCount, but the length of the filter is used also when no
\* filter is given
RequiredLenOfFilter(codes) == Len(codes)

RequiredCount(codes) ==
    IF codes # <<>> THEN Len(codes) ELSE Len(AVAILABLE_CURRENCIES)

get_dates_with_records(table, start, end, codes) ==
    LET dates == {d \in {r.date : r \in Rows(table)} :
                    /\ start <= d /\ d <= end
                    /\ DateCount(table, d, codes) >= RequiredCount(codes)}
    IN  _select(SortedDates(dates))

----------------------------------------------------------------------------
(* api_communication_service: requests to the NBP API *)

\* math.ceil(a / b) for a >= 0 and b > 0
Ceil(a, b) == (a + b - 1) \div b

\* split_into_chunks_and_send_requests, for one (start, end) of dates_ranges:
\* the date ranges of the requests it sends, in order
ChunkRequests(start, end) ==
    IF (end - start) <= max_len THEN <<<<start, end>>>>
    ELSE LET date_chunks_num == Ceil(end - start, max_len)
         IN  [n \in 1 .. date_chunks_num |->
                LET i == n - 1
                    chunk_start_date == start + max_len * i
                    chunk_end_date == start + max_len * (i + 1) - 1
                IN  <<chunk_start_date,
                      IF chunk_end_date < end THEN chunk_end_date ELSE end>>]

\* One request: the uri with its endpoint (a currency code for rates/A/<code>,
\* None for tables/A) and its dates.
Request(code, chunk) == [code |-> code, start |-> chunk[1], end |-> chunk[2]]

\* split_into_chunks_and_send_requests(uri): every range of dates_ranges in order
RECURSIVE UriRequests(_, _)
UriRequests(code, ranges) ==
    IF ranges = <<>> THEN <<>>
    ELSE LET chunks == ChunkRequests(Head(ranges)[1], Head(ranges)[2])
         IN  [i \in DOMAIN chunks |-> Request(code, chunks[i])]
             \o UriRequests(code, Tail(ranges))

\* request_data_from_nbp_database: the requests in the order they are sent,
\* currencies in the outer loop, or the tables endpoint when no code is given
RECURSIVE CurrencyRequests(_, _)
CurrencyRequests(codes, ranges) ==
    IF codes = <<>> THEN <<>>
    ELSE UriRequests(Head(codes), ranges) \o CurrencyRequests(Tail(codes), ranges)

\* as request_data_from_nbp_database, but every request is issued a second time
RequestsSentTwice(ranges, codes) ==
    LET once == IF codes # <<>> THEN CurrencyRequests(codes, ranges)
                ELSE UriRequests(None, ranges)
    IN  once \o once

request_data_from_nbp_database(ranges, codes) ==
    IF codes # <<>> THEN CurrencyRequests(codes, ranges)
    ELSE UriRequests(None, ranges)

\* requests.exceptions: Timeout, ConnectionError and HTTPError derive from
\* RequestException
IsInstance(exc, class) ==
    \/ exc = class
    \/ class = "RequestException" /\ exc \in {"Timeout", "ConnectionError", "HTTPError"}

\* response.raise_for_status()
RaiseForStatus(status_code) == IF status_code >= 400 THEN "HTTPError" ELSE None

\* _send_request_to_nbp_api(uri), given what requests.get does: reply.exc is
\* the exception it raises or None, reply.status_code and reply.json the
\* response it returns.  A json dict is wrapped in a list, a json list is
\* returned as it is; every caught exception ends in "return []".
SendWithoutHandlers(reply) ==
    LET exc == IF reply.exc # None THEN reply.exc ELSE RaiseForStatus(reply.status_code)
    IN  IF exc = None
        THEN [returned |-> IF reply.is_dict THEN <<reply.json>> ELSE reply.json,
              raised |-> None]
        ELSE [returned |-> <<>>, raised |-> exc]

SendCatchingOnlyNoData(reply) ==
    LET exc == IF reply.exc # None THEN reply.exc ELSE RaiseForStatus(reply.status_code)
    IN  IF exc = None
        THEN [returned |-> IF reply.is_dict THEN <<reply.json>> ELSE reply.json,
              raised |-> None]
        ELSE IF IsInstance(exc, "Timeout") THEN [returned |-> <<>>, raised |-> None]
        ELSE IF IsInstance(exc, "ConnectionError") THEN [returned |-> <<>>, raised |-> None]
        ELSE IF IsInstance(exc, "HTTPError") /\ reply.status_code = 404
             THEN [returned |-> <<>>, raised |-> None]
        ELSE [returned |-> <<>>, raised |-> exc]

_send_request_to_nbp_api(reply) ==
    LET exc == IF reply.exc # None THEN reply.exc ELSE RaiseForStatus(reply.status_code)
    IN  IF exc = None
        THEN [returned |-> IF reply.is_dict THEN <<reply.json>> ELSE reply.json,
              raised |-> None]
        ELSE IF IsInstance(exc, "Timeout") THEN [returned |-> <<>>, raised |-> None]
        ELSE IF IsInstance(exc, "ConnectionError") THEN [returned |-> <<>>, raised |-> None]
        ELSE IF IsInstance(exc, "HTTPError") THEN [returned |-> <<>>, raised |-> None]
        ELSE IF IsInstance(exc, "RequestException") THEN [returned |-> <<>>, raised |-> None]
        ELSE [returned |-> <<>>, raised |-> exc]

----------------------------------------------------------------------------
(* The NBP server *)

\* the mid rate the server publishes for a currency and a date
NbpMid(code, d) == IF code = "EUR" THEN 2 ELSE 1

\* str(date) in a uri or a response, and strptime(..., '%Y-%m-%d').date()
IsoFormat(d) == <<"%Y-%m-%d", d>>

Strptime(text) == text[2]

\* the json of rates/A/<code>/<start>/<end>/: one dict, a rate per published date
RatesJson(code, dates) ==
    [table |-> "A", code |-> code,
     rates |-> [i \in DOMAIN dates |->
                  [effectiveDate |-> IsoFormat(dates[i]), mid |-> NbpMid(code, dates[i])]]]

\* the json of tables/A/<start>/<end>/: a list with one dict per published date
TablesJson(dates) ==
    [i \in DOMAIN dates |->
        [table |-> "A", effectiveDate |-> IsoFormat(dates[i]),
         rates |-> [j \in DOMAIN AVAILABLE_CURRENCIES |->
                      [code |-> AVAILABLE_CURRENCIES[j],
                       mid |-> NbpMid(AVAILABLE_CURRENCIES[j], dates[i])]]]]

Reply(exc, status_code, is_dict, json) ==
    [exc |-> exc, status_code |-> status_code, is_dict |-> is_dict, json |-> json]

\* What requests.get may do with a request: fail in transport, or deliver the
\* server's answer: an error status, 404 for "no data", or 200 with the rates
\* of the published dates of the requested range.
Replies(request, published) ==
    LET dates == SortedDates({d \in published : request.start <= d /\ d <= request.end})
    IN  {Reply("Timeout", 0, FALSE, <<>>),
         Reply("ConnectionError", 0, FALSE, <<>>),
         Reply("RequestException", 0, FALSE, <<>>),
         Reply(None, 400, FALSE, <<>>),
         Reply(None, 404, FALSE, <<>>)}
        \cup (IF dates = <<>> THEN {}
              ELSE IF request.code # None
                   THEN {Reply(None, 200, TRUE, RatesJson(request.code, dates))}
                   ELSE {Reply(None, 200, FALSE, TablesJson(dates))})

----------------------------------------------------------------------------
(* data_collection_service *)

\* an optional date: <<>> is None, <<d>> a date
NoDate == <<>>

\* the inner loop of _calculate_missing_date_intervals over the dates of one
\* chunk; acc carries missing_date_intervals and prev_date
RECURSIVE ScanDatesFromPrevDate(_, _, _)
ScanDatesFromPrevDate(dates, start, acc) ==
    IF dates = <<>> THEN acc
    ELSE LET date == Head(dates)
             missing ==
                 IF acc.prev_date # NoDate /\ (date - 1) > acc.prev_date[1]
                 THEN Append(acc.missing, <<acc.prev_date[1], date - 1>>)
                 ELSE IF acc.prev_date = NoDate /\ date > start
                      THEN Append(acc.missing, <<start, date - 1>>)
                      ELSE acc.missing
         IN  ScanDatesFromPrevDate(Tail(dates), start,
                                   [missing |-> missing, prev_date |-> <<date>>])

\* as ScanDates, but a date counts as leaving a gap whenever it is later
\* than the previous one, also when it is the next day
RECURSIVE ScanDatesAnyLaterDate(_, _, _)
ScanDatesAnyLaterDate(dates, start, acc) ==
    IF dates = <<>> THEN acc
    ELSE LET date == Head(dates)
             missing ==
                 IF acc.prev_date # NoDate /\ date > acc.prev_date[1]
                 THEN Append(acc.missing, <<acc.prev_date[1] + 1, date - 1>>)
                 ELSE IF acc.prev_date = NoDate /\ date > start
                      THEN Append(acc.missing, <<start, date - 1>>)
                      ELSE acc.missing
         IN  ScanDatesAnyLaterDate(Tail(dates), start,
                                   [missing |-> missing, prev_date |-> <<date>>])

RECURSIVE ScanDates(_, _, _)
ScanDates(dates, start, acc) ==
    IF dates = <<>> THEN acc
    ELSE LET date == Head(dates)
             missing ==
                 IF acc.prev_date # NoDate /\ (date - 1) > acc.prev_date[1]
                 THEN Append(acc.missing, <<acc.prev_date[1] + 1, date - 1>>)
                 ELSE IF acc.prev_date = NoDate /\ date > start
                      THEN Append(acc.missing, <<start, date - 1>>)
                      ELSE acc.missing
         IN  ScanDates(Tail(dates), start, [missing |-> missing, prev_date |-> <<date>>])

\* the loop over the chunks, with its early return, and the code after it
RECURSIVE ScanChunks(_, _, _, _)
ScanChunks(chunks, start, end, acc) ==
    IF chunks = <<>>
    THEN IF acc.prev_date = NoDate
         THEN [value |-> <<>>, raised |-> "TypeError"]   \* None < end_date
         ELSE IF acc.prev_date[1] < end
              THEN [value |-> Append(acc.missing, <<acc.prev_date[1] + 1, end>>),
                    raised |-> None]
              ELSE [value |-> acc.missing, raised |-> None]
    ELSE IF Head(chunks) = <<>> /\ acc.missing = <<>>
         THEN [value |-> <<<<start, end>>>>, raised |-> None]
         ELSE ScanChunks(Tail(chunks), start, end, ScanDates(Head(chunks), start, acc))

_calculate_missing_date_intervals(start, end, dates_with_records_iter) ==
    ScanChunks(dates_with_records_iter, start, end,
               [missing |-> <<>>, prev_date |-> NoDate])

\* as _reformat_json_for_single_currency_exchange_rates, but the dict is
\* appended without .copy(): every element is the one dict, as last updated
ReformatSingleWithoutCopy(response_json) ==
    LET last == response_json.rates[Len(response_json.rates)]
    IN  [i \in DOMAIN response_json.rates |->
            ExchangeRates(Strptime(last.effectiveDate), response_json.code, last.mid)]

\* _reformat_json_for_single_currency_exchange_rates
_reformat_json_for_single_currency_exchange_rates(response_json) ==
    [i \in DOMAIN response_json.rates |->
        ExchangeRates(Strptime(response_json.rates[i].effectiveDate),
                      response_json.code,
                      response_json.rates[i].mid)]

\* _reformat_json_for_all_currencies_exchange_rates
_reformat_json_for_all_currencies_exchange_rates(response_json) ==
    [i \in DOMAIN response_json.rates |->
        ExchangeRates(Strptime(response_json.effectiveDate),
                      response_json.rates[i].code,
                      response_json.rates[i].mid)]

\* _align_json_data_with_database_model: response_json.get('code', None)
_align_json_data_with_database_model(response_json) ==
    IF "code" \in DOMAIN response_json /\ response_json.code # ""
    THEN _reformat_json_for_single_currency_exchange_rates(response_json)
    ELSE _reformat_json_for_all_currencies_exchange_rates(response_json)

\* gather_data_for_date_range, line 35: the query is aborted
AbortsWhenNothingCollected(collected, missing, start, end) == ~collected

\* as IsNotAvailable, but whether anything was collected is not looked at
AbortsWhenWholeRangeMissing(collected, missing, start, end) ==
    missing = <<<<start, end>>>>

IsNotAvailable(collected, missing, start, end) ==
    ~collected /\ missing = <<<<start, end>>>>

----------------------------------------------------------------------------
(* report_generator_service: the analytics over the chunks of a read *)

\* Python values that the code compares with ==: a 1-tuple, a str and None
\* are never equal to one another.
PyTuple(x) == [tuple |-> <<x>>]

PyStr(x) == [str |-> x]

PyNone == [none |-> TRUE]

\* curr_map of services/variables.py
curr_map(curr_code, value) == [curr_code |-> curr_code, value |-> value]

\* a float that may be infinite: <<>> is float('inf') or float('-inf'), as
\* the place says, <<x>> the number x
Smaller(a, b) == IF a < b THEN a ELSE b

Larger(a, b) == IF a > b THEN a ELSE b

\* as FindLoop, but each rate is compared with the rate before it only
RECURSIVE FindLoopAdjacent(_, _)
FindLoopAdjacent(pd_series, acc) ==
    IF pd_series = <<>> THEN acc
    ELSE LET rate == Head(pd_series)
             before == IF acc.inc_min = <<>> THEN rate ELSE acc.inc_min[1]
         IN  FindLoopAdjacent(Tail(pd_series),
                  [inc_min |-> <<rate>>, dec_max |-> <<rate>>,
                   max_increase |-> Larger(acc.max_increase, rate - before),
                   max_decrease |-> Larger(acc.max_decrease, before - rate)])

\* _find_largest_increase_and_decrease: the loop over the rates
RECURSIVE FindLoop(_, _)
FindLoop(pd_series, acc) ==
    IF pd_series = <<>> THEN acc
    ELSE LET rate == Head(pd_series)
             inc_min == IF acc.inc_min = <<>> THEN rate ELSE Smaller(acc.inc_min[1], rate)
             max_increase == Larger(acc.max_increase, rate - inc_min)
             dec_max == IF acc.dec_max = <<>> THEN rate ELSE Larger(acc.dec_max[1], rate)
             max_decrease == Larger(acc.max_decrease, dec_max - rate)
         IN  FindLoop(Tail(pd_series),
                      [inc_min |-> <<inc_min>>, dec_max |-> <<dec_max>>,
                       max_increase |-> max_increase, max_decrease |-> max_decrease])

\* as _find_largest_increase_and_decrease, but the running minimum and
\* maximum start at 0 instead of at infinity
FindLargestFromZero(pd_series) ==
    FindLoop(pd_series, [inc_min |-> <<0>>, dec_max |-> <<0>>,
                         max_increase |-> 0, max_decrease |-> 0])

_find_largest_increase_and_decrease(pd_series) ==
    FindLoop(pd_series, [inc_min |-> <<>>, dec_max |-> <<>>,
                         max_increase |-> 0, max_decrease |-> 0])

\* df['currency_rate']
CurrencyRate(df) == [i \in DOMAIN df |-> df[i].currency_rate]

\* df_chunk.groupby([df_chunk['currency_code']]): the groups in the order of
\* their keys.  Grouping by a list of one key, the loop gets each key as a
\* 1-tuple (the code reads currency_code[0] for the code itself).
RECURSIVE GroupsOf(_, _)
GroupsOf(df_chunk, codes) ==
    IF codes = {} THEN <<>>
    ELSE LET c == CHOOSE x \in codes : \A y \in codes : CodeRank(x) <= CodeRank(y)
         IN  <<[key |-> PyTuple(c),
                df |-> SelectSeq(df_chunk, LAMBDA row : row.currency_code = c)]>>
             \o GroupsOf(df_chunk, codes \ {c})

groupby(df_chunk) == GroupsOf(df_chunk, {df_chunk[i].currency_code : i \in DOMAIN df_chunk})

\* as Exceeds, but the value starts as 0
ExceedsFromZero(x, value) == x > (IF value = <<>> THEN 0 ELSE value[1])

\* max_inc > curr_max_inc.value, where the value starts as float('-inf')
Exceeds(x, value) == value = <<>> \/ x > value[1]

\* lines 164-172: the loop over the groups of one chunk
RECURSIVE GroupLoop(_, _, _)
GroupLoop(groups, last_chunk, best) ==
    IF groups = <<>> THEN best
    ELSE LET currency_code == Head(groups).key
             df == IF currency_code = last_chunk.curr_code
                   THEN last_chunk.value \o Head(groups).df
                   ELSE Head(groups).df
             found == _find_largest_increase_and_decrease(CurrencyRate(df))
             curr_max_inc ==
                 IF Exceeds(found.max_increase, best.max_recorded_increase.value)
                 THEN curr_map(currency_code, <<found.max_increase>>)
                 ELSE best.max_recorded_increase
             curr_max_dec ==
                 IF Exceeds(found.max_decrease, best.max_recorded_decrease.value)
                 THEN curr_map(currency_code, <<found.max_decrease>>)
                 ELSE best.max_recorded_decrease
         IN  GroupLoop(Tail(groups), last_chunk,
                       [max_recorded_increase |-> curr_max_inc,
                        max_recorded_decrease |-> curr_max_dec])

\* lines 174-175: grouped_chunks.last() is indexed by the currency codes, so
\* last_row.name is the code of the last group as a str, and
\* get_group((last_row.name,)) that group's rows of this chunk
LastChunk(groups) ==
    LET last_row_name == Head(groups[Len(groups)].key.tuple)
    IN  curr_map(PyStr(last_row_name), groups[Len(groups)].df)

\* lines 162-177: the loop over the chunks; on a chunk without rows
\* grouped_chunks.last().iloc[-1] raises IndexError
RECURSIVE ChunkLoop(_, _, _)
ChunkLoop(chunks, last_chunk, best) ==
    IF chunks = <<>> THEN [value |-> best, raised |-> None]
    ELSE LET grouped_chunks == groupby(Head(chunks))
             after == GroupLoop(grouped_chunks, last_chunk, best)
         IN  IF grouped_chunks = <<>>
             THEN [value |-> after, raised |-> "IndexError"]
             ELSE ChunkLoop(Tail(chunks), LastChunk(grouped_chunks), after)

_get_largest_exchange_rate_increase_and_decrease(chunks) ==
    ChunkLoop(chunks, curr_map(PyNone, <<>>),
              [max_recorded_increase |-> curr_map(PyNone, <<>>),
               max_recorded_decrease |-> curr_map(PyNone, <<>>)])

----------------------------------------------------------------------------
(* The store under any sequence of operations *)

StoreDates == 0 .. MaxStoreDay

StoreKeys == StoreDates \X Codes

Intervals(dates) == {iv \in dates \X dates : iv[1] <= iv[2]}

CurrencyFilters == {<<>>, <<"EUR">>, <<"USD">>, <<"EUR", "USD">>}

\* What the program merges: the normalised form of one response, either one
\* currency over the dates of an interval or all currencies of one date.
SingleCurrencyRecords(c, s, e, r) == [i \in 1 .. (e - s + 1) |-> ExchangeRates(s + i - 1, c, r)]

AllCurrenciesRecords(d, r) ==
    [i \in DOMAIN AVAILABLE_CURRENCIES |-> ExchangeRates(d, AVAILABLE_CURRENCIES[i], r)]

MergeInputs ==
    {SingleCurrencyRecords(c, iv[1], iv[2], r) :
        c \in Codes, iv \in Intervals(StoreDates), r \in Rates}
    \cup {AllCurrenciesRecords(d, r) : d \in StoreDates, r \in Rates}

\* history: the first record merged under each key, as a set of rows
RECURSIVE FirstMerged(_, _)
FirstMerged(fm, input_data) ==
    IF input_data = <<>> THEN fm
    ELSE LET row == Head(input_data)
             nfm == IF \E f \in fm : Key(f) = Key(row) THEN fm ELSE fm \cup {row}
         IN  FirstMerged(nfm, Tail(input_data))

\* no query is running
NoSend == [request |-> <<>>, exc |-> None, status_code |-> 0, returned |-> <<>>, raised |-> None]

\* no report is being generated
NoExtremum == curr_map(PyNone, <<>>)

ReportIdle ==
    /\ df_iter = <<>>
    /\ analytical_data = [max_recorded_increase |-> NoExtremum,
                          max_recorded_decrease |-> NoExtremum]

\* no merge is in progress and no series is being analysed
CallsIdle ==
    /\ merging = <<>>
    /\ rate_series = <<>>
    /\ largest = <<>>

\* no command line is being handled and no report file is being written
MainIdle ==
    /\ args = [start_date |-> <<>>, end_date |-> <<>>]
    /\ today = 0
    /\ report_type = "" /\ extension = ""
    /\ invoked = <<>>
    /\ json_report = <<>>

GatherIdle ==
    /\ pc = "idle"
    /\ start_date = 0 /\ end_date = 0 /\ currency_codes = <<>>
    /\ nbp = {} /\ db0 = EmptyBag /\ covered = {}
    /\ missing_dates_ranges = <<>> /\ sent = <<>> /\ last_send = NoSend
    /\ response = <<>> /\ consumed = 0 /\ data_collected = FALSE

StoreInit ==
    /\ db = EmptyBag
    /\ op = [name |-> "create", input |-> <<>>, repeat |-> FALSE]
    /\ first_merged = {}
    /\ read_result = <<>>
    /\ GatherIdle
    /\ ReportIdle
    /\ MainIdle
    /\ CallsIdle

\* save_data_into_database(input_data)
save_data_into_database(input_data) ==
    /\ db' = insert(db, input_data)
    /\ op' = [name |-> "save", input |-> input_data,
              repeat |-> (op.name = "save" /\ op.input = input_data)]
    /\ first_merged' = FirstMerged(first_merged, input_data)
    /\ read_result' = <<>>

SaveDataIntoDatabase(input_data) ==
    /\ save_data_into_database(input_data)
    /\ UNCHANGED <<gatherVars, reportVars, callVars, mainVars>>

\* get_dates_with_records(start, end, codes): a coverage scan
GetDatesWithRecords(start, end, codes) ==
    /\ read_result' = get_dates_with_records(db, start, end, codes)
    /\ op' = [name |-> "dates", input |-> <<>>, repeat |-> FALSE]
    /\ UNCHANGED <<db, first_merged>>
    /\ UNCHANGED <<gatherVars, reportVars, callVars, mainVars>>

\* get_exchange_rates_data_from_database(...): the read of a report
GetExchangeRatesData(start, end, codes) ==
    /\ read_result' = get_exchange_rates_data_from_database(db, start, end,
                                                            codes)
    /\ op' = [name |-> "rows", input |-> <<>>, repeat |-> FALSE]
    /\ UNCHANGED <<db, first_merged>>
    /\ UNCHANGED <<gatherVars, reportVars, callVars, mainVars>>

StoreNext ==
    \/ \E input_data \in MergeInputs : SaveDataIntoDatabase(input_data)
    \/ \E iv \in Intervals(StoreDates), cc \in CurrencyFilters :
          GetDatesWithRecords(iv[1], iv[2], cc)
    \/ \E iv \in Intervals(StoreDates), cc \in CurrencyFilters :
          GetExchangeRatesData(iv[1], iv[2], cc)

SpecStore == StoreInit /\ [][StoreNext]_vars

(* C5: merging the same normalised record set a second time, directly after  *)
(* merging it once, leaves the store with exactly the contents it had after  *)
(* the first merge.                                                          *)
C5_MergeTwiceSameAsOnce ==
    [][(op'.name = "save" /\ op'.repeat) => db' = db]_vars

\* the second merge of a record set has acted on a store in which one of its
\* keys was held with another rate before the first merge
C5_Witness ==
    /\ op.name = "save" /\ op.repeat /\ op.input # <<>>
    /\ \E i \in DOMAIN op.input : op.input[i] \in Rows(db)
    /\ \E i \in DOMAIN op.input :
          Key(op.input[i]) \in StoredKeys(db) /\ op.input[i] \notin Rows(db)

(* C6: after any sequence of merges, coverage scans and report reads no      *)
(* stored record is deleted or changed: the table holds, once each, exactly  *)
(* the first record merged under every key, and every row of a state is a    *)
(* row of the next.                                                          *)
C6_StoredRecordsNeverChange ==
    /\ [](/\ Rows(db) = first_merged
          /\ \A r \in Rows(db) : CopiesIn(r, db) = 1)
    /\ [][\A r \in Rows(db) : r \in Rows(db')]_vars

\* a merge has ignored a record whose key was already stored with another rate
C6_Witness ==
    /\ op.name = "save"
    /\ \E i \in DOMAIN op.input :
          /\ op.input[i] \notin Rows(db)
          /\ \E r \in Rows(db) :
                Key(r) = Key(op.input[i]) /\ r.currency_rate # op.input[i].currency_rate

----------------------------------------------------------------------------
(* gather_data_for_date_range: one query against the cache and the server *)

Days == 0 .. MaxDay

\* the chunks of a read as one sequence
RECURSIVE Flatten(_)
Flatten(chunks) == IF chunks = <<>> THEN <<>> ELSE Head(chunks) \o Flatten(Tail(chunks))

\* The cache when a query starts: rows merged by earlier queries, with the
\* rates the server publishes.
CachedRows == {ExchangeRates(d, c, NbpMid(c, d)) : d \in Days, c \in Codes}

QueryStart(rows, start, end, codes, published) ==
    /\ db = SetToBag(rows)
    /\ op = [name |-> "create", input |-> <<>>, repeat |-> FALSE]
    /\ first_merged = rows
    /\ read_result = <<>>
    /\ pc = "gather"
    /\ start_date = start /\ end_date = end /\ currency_codes = codes
    /\ nbp = published
    /\ db0 = db /\ covered = {}
    /\ missing_dates_ranges = <<>> /\ sent = <<>> /\ last_send = NoSend
    /\ response = <<>> /\ consumed = 0 /\ data_collected = FALSE
    /\ ReportIdle
    /\ MainIdle
    /\ CallsIdle

GatherInit ==
    \E rows \in SUBSET CachedRows, iv \in Intervals(Days), codes \in CurrencyFilters :
        QueryStart(rows, iv[1], iv[2], codes, Days)

\* lines 31-33: the coverage scan, the gaps, and the return when nothing is missing
Gather ==
    /\ pc = "gather"
    /\ LET dates_with_records_iter ==
               get_dates_with_records(db, start_date, end_date, currency_codes)
           result == _calculate_missing_date_intervals(start_date, end_date,
                                                       dates_with_records_iter)
       IN  /\ read_result' = dates_with_records_iter
           /\ covered' = SeqToSet(Flatten(dates_with_records_iter))
           /\ missing_dates_ranges' = result.value
           /\ pc' = IF result.raised # None THEN "raised"
                    ELSE IF result.value # <<>> THEN "requesting" ELSE "returned"
    /\ op' = [name |-> "dates", input |-> <<>>, repeat |-> FALSE]
    /\ UNCHANGED <<db, first_merged, start_date, end_date, currency_codes, nbp, db0,
                   sent, last_send, response, consumed, data_collected, reportVars, callVars, mainVars>>

\* request_data_from_nbp_database: the next request is sent while the chain is
\* built; what _send_request_to_nbp_api returns is chained to the responses
SendRequest ==
    /\ pc = "requesting"
    /\ LET plan == request_data_from_nbp_database(missing_dates_ranges, currency_codes)
           request == plan[Len(sent) + 1]
       IN  \E reply \in Replies(request, nbp) :
              LET result == _send_request_to_nbp_api(reply)
              IN  /\ sent' = Append(sent, [request |-> request,
                                           delivered |-> result.returned # <<>>])
                  /\ last_send' = [request |-> request, exc |-> reply.exc,
                                   status_code |-> reply.status_code,
                                   returned |-> result.returned,
                                   raised |-> result.raised]
                  /\ response' = response \o result.returned
                  /\ pc' = IF result.raised # None THEN "raised"
                           ELSE IF Len(sent') = Len(plan) THEN "saving"
                           ELSE "requesting"
    /\ UNCHANGED <<storeVars, start_date, end_date, currency_codes, nbp, db0, covered,
                   missing_dates_ranges, consumed, data_collected, reportVars, callVars, mainVars>>

\* _collect_missing_data_from_nbp_api, lines 84-86: one turn of the loop
SaveResponse ==
    /\ pc = "saving"
    /\ consumed < Len(response)
    /\ data_collected' = TRUE
    /\ save_data_into_database(_align_json_data_with_database_model(response[consumed + 1]))
    /\ consumed' = consumed + 1
    /\ UNCHANGED <<pc, start_date, end_date, currency_codes, nbp, db0, covered,
                   missing_dates_ranges, sent, last_send, response, reportVars, callVars, mainVars>>

\* _collect_missing_data_from_nbp_api returns data_collected; lines 35-36
Return ==
    /\ pc = "saving"
    /\ consumed = Len(response)
    /\ pc' = IF IsNotAvailable(data_collected, missing_dates_ranges, start_date, end_date)
             THEN "SystemExit"
             ELSE "returned"
    /\ UNCHANGED <<storeVars, start_date, end_date, currency_codes, nbp, db0, covered,
                   missing_dates_ranges, sent, last_send, response, consumed,
                   data_collected, reportVars, callVars, mainVars>>

GatherNext == Gather \/ SendRequest \/ SaveResponse \/ Return

Spec == GatherInit /\ [][GatherNext]_vars

\* Queries over an empty cache whose range is long enough to be split: the
\* server holds a table for the first and the last date of the range.
FetchInit ==
    \E start \in 0 .. 1, span \in 0 .. MaxSpan,
       codes \in {<<>>, <<"USD">>, <<"EUR", "USD">>} :
        QueryStart({}, start, start + span, codes, {start, start + span})

SpecFetch == FetchInit /\ [][GatherNext]_vars


----------------------------------------------------------------------------
(* _calculate_missing_date_intervals on any coverage stream *)

GapDays == 0 .. MaxGapDay

\* every way to cut a sequence into consecutive non-empty chunks
RECURSIVE Cuts(_)
Cuts(rows) ==
    IF rows = <<>> THEN {<<>>}
    ELSE UNION {{<<SubSeq(rows, 1, k)>> \o rest :
                    rest \in Cuts(SubSeq(rows, k + 1, Len(rows)))} :
                k \in 1 .. Len(rows)}

\* What _select can yield for a result, whatever the chunk size: the rows cut
\* into non-empty chunks, and a single empty chunk for an empty result.
Streams(rows) == IF rows = <<>> THEN {<<<<>>>>} ELSE Cuts(rows)

\* a call with the range iv, the covered dates C and their stream
GapStart(iv, C, stream) ==
    /\ start_date = iv[1]
    /\ end_date = iv[2]
    /\ covered = C
    /\ read_result = stream
    /\ pc = "gaps"
    /\ db = EmptyBag
    /\ op = [name |-> "dates", input |-> <<>>, repeat |-> FALSE]
    /\ first_merged = {}
    /\ currency_codes = <<>> /\ nbp = {} /\ db0 = EmptyBag
    /\ missing_dates_ranges = <<>> /\ sent = <<>> /\ last_send = NoSend
    /\ response = <<>> /\ consumed = 0 /\ data_collected = FALSE
    /\ ReportIdle
    /\ MainIdle
    /\ CallsIdle

GapInit ==
    \E iv \in Intervals(GapDays) :
        \E C \in SUBSET DatesOf(iv[1], iv[2]) :
            \E stream \in Streams(SortedDates(C)) : GapStart(iv, C, stream)

\* _calculate_missing_date_intervals(start_date, end_date, dates_with_records_iter)
CalculateMissing ==
    /\ pc = "gaps"
    /\ LET result == _calculate_missing_date_intervals(start_date, end_date, read_result)
       IN  /\ missing_dates_ranges' = result.value
           /\ pc' = IF result.raised # None THEN "raised" ELSE "gaps_done"
    /\ UNCHANGED <<storeVars, start_date, end_date, currency_codes, nbp, db0, covered,
                   sent, last_send, response, consumed, data_collected, reportVars, callVars, mainVars>>

SpecGaps == GapInit /\ [][CalculateMissing]_vars

\* The function called with any iterator over chunks of dates: the streams of
\* _select, and for no date also an iterator that yields no chunk at all.
IteratorsOver(dates) == Streams(dates) \cup (IF dates = <<>> THEN {<<>>} ELSE {})

GapCallInit ==
    \E iv \in Intervals(GapDays) :
        \E C \in SUBSET DatesOf(iv[1], iv[2]) :
            \E stream \in IteratorsOver(SortedDates(C)) : GapStart(iv, C, stream)

SpecGapCall == GapCallInit /\ [][CalculateMissing]_vars

\* the dates of the returned gaps
GapDates == UNION {DatesOf(missing_dates_ranges[i][1], missing_dates_ranges[i][2]) :
                   i \in DOMAIN missing_dates_ranges}

(* C1: for every requested range and every coverage stream of ascending       *)
(* dates inside it, _calculate_missing_date_intervals returns, and the dates  *)
(* of its gaps together with the covered dates are exactly the dates of the   *)
(* range, no gap holding a covered date.                                      *)
C1_GapsAndCoverageMakeUpRange ==
    /\ pc # "raised"
    /\ pc = "gaps_done" =>
          /\ GapDates \cup covered = DatesOf(start_date, end_date)
          /\ GapDates \cap covered = {}

\* gaps before, between and after covered dates that arrive in two chunks
C1_Witness ==
    /\ pc = "gaps_done"
    /\ Len(missing_dates_ranges) = 3
    /\ Len(read_result) = 2
    /\ Cardinality(covered) >= 3
    /\ start_date \notin covered
    /\ end_date \notin covered

----------------------------------------------------------------------------
(* Claims about the fetch and the query *)

Finished == {"returned", "SystemExit", "raised"}

\* the requests sent to one uri, in order
SentTo(code) == SelectSeq(sent, LAMBDA x : x.request.code = code)

Uris == IF currency_codes = <<>> THEN {None} ELSE SeqToSet(currency_codes)

(* C2: the chunks requested for an interval [s, e] are consecutive and cover  *)
(* it exactly: the first starts at s, each next one starts the day after the  *)
(* previous one ends, and the last ends at e, for every span.  Stated for the *)
(* queries of SpecFetch, whose only gap is the whole range.                   *)
C2_ChunksCoverInterval ==
    (pc \in {"saving", "returned", "SystemExit"}
     /\ missing_dates_ranges = <<<<start_date, end_date>>>>) =>
        \A code \in Uris :
            LET chunks == SentTo(code)
            IN  /\ chunks # <<>>
                /\ chunks[1].request.start = start_date
                /\ \A i \in 1 .. (Len(chunks) - 1) :
                      chunks[i + 1].request.start = chunks[i].request.end + 1
                /\ chunks[Len(chunks)].request.end = end_date

\* the failures that mean "no records for this chunk"
NoDataFailure(send) ==
    \/ send.exc \in {"Timeout", "ConnectionError"}
    \/ send.exc = None /\ send.status_code = 404

\* the other failures of a request
OtherFailure(send) ==
    \/ send.exc = "RequestException"
    \/ send.exc = None /\ send.status_code >= 400 /\ send.status_code # 404

(* C9: a request that ends in a timeout, a connection failure or HTTP 404     *)
(* yields zero records: _send_request_to_nbp_api returns the empty list and   *)
(* raises nothing, so the query goes on.                                      *)
C9_NoDataFailureYieldsNothing ==
    (last_send.request # <<>> /\ NoDataFailure(last_send)) =>
        /\ last_send.returned = <<>>
        /\ last_send.raised = None
        /\ pc # "raised"

\* a request after a delivered one has timed out
C9_Witness ==
    /\ Len(sent) >= 2
    /\ sent[1].delivered
    /\ last_send.exc = "Timeout"
    /\ last_send.returned = <<>>
    /\ pc \in {"requesting", "saving"}

(* C10 as stated: a request failure that is neither a transport failure nor   *)
(* HTTP 404 propagates to the caller of the fetch.                            *)
C10_OtherFailurePropagates ==
    (last_send.request # <<>> /\ OtherFailure(last_send)) =>
        last_send.raised # None

(* C10 as amended: a request failure of any other class of the requests       *)
(* library (an HTTP error status other than 404, any other RequestException)  *)
(* is converted into an empty result for that chunk as well; nothing          *)
(* propagates to the caller of the fetch.                                     *)
C10_OtherFailureYieldsNothing ==
    (last_send.request # <<>> /\ OtherFailure(last_send)) =>
        /\ last_send.returned = <<>>
        /\ last_send.raised = None
        /\ pc # "raised"

\* a request has ended in a RequestException that is no timeout, connection
\* failure or HTTP error, and the query goes on
C10_Witness ==
    /\ last_send.request # <<>>
    /\ last_send.exc = "RequestException"
    /\ last_send.returned = <<>>
    /\ pc \in {"requesting", "saving"}

(* C7: gather_data_for_date_range never ends in another exception, and it    *)
(* ends in SystemExit exactly when the coverage scan reported no date of the  *)
(* range (the whole range is one gap) and no request delivered a response.    *)
C7_AbortsExactlyWhenNothingAvailable ==
    /\ pc # "raised"
    /\ pc \in {"returned", "SystemExit"} =>
          (pc = "SystemExit" <=> (covered = {} /\ response = <<>>))

\* a query over a range without any covered date has sent several requests,
\* none delivered, and was aborted
C7_Witness ==
    /\ pc = "SystemExit"
    /\ Len(sent) >= 2
    /\ missing_dates_ranges = <<<<start_date, end_date>>>>

\* the records the server delivered: the published rates of the delivered requests
DeliveredRecords ==
    UNION {{ExchangeRates(d, c, NbpMid(c, d)) :
               d \in nbp \cap DatesOf(sent[i].request.start, sent[i].request.end),
               c \in IF sent[i].request.code = None THEN Codes
                     ELSE {sent[i].request.code}} :
           i \in {j \in DOMAIN sent : sent[j].delivered}}

(* C8: when some requests of a query fail and others deliver, the query ends  *)
(* normally and every delivered record is in the store: its key is stored,    *)
(* and where the key was not cached before, it is stored as delivered.        *)
C8_FailedRequestsDoNotBlockOthers ==
    (/\ pc \in Finished
     /\ \E i \in DOMAIN sent : ~sent[i].delivered
     /\ \E i \in DOMAIN sent : sent[i].delivered) =>
        /\ pc = "returned"
        /\ \A r \in DeliveredRecords :
              /\ Key(r) \in StoredKeys(db)
              /\ Key(r) \notin StoredKeys(db0) => r \in Rows(db)

\* a query with two gaps has ended: the first request failed, the second
\* delivered, and the delivered rows are new in the store
C8_Witness ==
    /\ pc = "returned"
    /\ Len(missing_dates_ranges) >= 2
    /\ Len(sent) >= 2
    /\ ~sent[1].delivered
    /\ sent[2].delivered
    /\ Rows(db) # Rows(db0)

----------------------------------------------------------------------------
(* The analytical report on any read *)

ReportRates == {1, 2, 3}

\* the rate series of one currency: rows of consecutive dates from 0
SeriesRows(code, rates) == [i \in DOMAIN rates |-> ExchangeRates(i - 1, code, rates[i])]

RateSeries(n) == UNION {[1 .. k -> ReportRates] : k \in 0 .. n}

\* the results of a read: rows in (currency_code, date) order
ReportReads ==
    UNION {{SeriesRows("EUR", a) \o SeriesRows("USD", b) :
               b \in RateSeries(MaxRows - Len(a))} :
           a \in RateSeries(MaxRows)}

ReportInit ==
    /\ \E rows \in ReportReads : df_iter \in Streams(rows)
    /\ analytical_data = [max_recorded_increase |-> NoExtremum,
                          max_recorded_decrease |-> NoExtremum]
    /\ pc = "report"
    /\ CallsIdle
    /\ MainIdle
    /\ db = EmptyBag
    /\ op = [name |-> "rows", input |-> <<>>, repeat |-> FALSE]
    /\ first_merged = {}
    /\ read_result = <<>>
    /\ start_date = 0 /\ end_date = 0 /\ currency_codes = <<>>
    /\ nbp = {} /\ db0 = EmptyBag /\ covered = {}
    /\ missing_dates_ranges = <<>> /\ sent = <<>> /\ last_send = NoSend
    /\ response = <<>> /\ consumed = 0 /\ data_collected = FALSE

\* generate_report, line 53: the analytical data of the chunks
GetLargestChanges ==
    /\ pc = "report"
    /\ LET result == _get_largest_exchange_rate_increase_and_decrease(df_iter)
       IN  /\ analytical_data' = result.value
           /\ pc' = IF result.raised # None THEN "raised" ELSE "report_done"
    /\ UNCHANGED <<storeVars, start_date, end_date, currency_codes, nbp, db0, covered,
                   missing_dates_ranges, sent, last_send, response, consumed,
                   data_collected, df_iter, callVars, mainVars>>

SpecReport == ReportInit /\ [][GetLargestChanges]_vars

\* the analytical data of the same rows given as one chunk
Uncut == _get_largest_exchange_rate_increase_and_decrease(<<Flatten(df_iter)>>).value

(* C3: however the (currency, date)-ordered rows are cut into consecutive     *)
(* non-empty chunks, the analytics return the best increase and the best      *)
(* decrease, value and currency, that they return for the rows as one chunk.  *)
C3_CutRowsGiveUncutResult ==
    (pc = "report_done" /\ Flatten(df_iter) # <<>>) => analytical_data = Uncut

(* C4: the series of a single currency cut into exactly two chunks gives the  *)
(* best increase and best decrease of the unsplit series.                     *)
C4_TwoChunksGiveUnsplitResult ==
    (/\ pc = "report_done"
     /\ Len(df_iter) = 2
     /\ Cardinality({row.currency_code : row \in SeqToSet(Flatten(df_iter))}) = 1) =>
        /\ analytical_data.max_recorded_increase.value = Uncut.max_recorded_increase.value
        /\ analytical_data.max_recorded_decrease.value = Uncut.max_recorded_decrease.value

----------------------------------------------------------------------------
(* Claims about the requests of a fetch *)

\* the date ranges requested from one uri, in order
RangesSentTo(code) ==
    LET chunks == SentTo(code)
    IN  [i \in DOMAIN chunks |-> <<chunks[i].request.start, chunks[i].request.end>>]

\* the fetch over the whole range as the only gap has sent all its requests
FetchedWholeRange ==
    /\ pc \in {"saving", "returned", "SystemExit"}
    /\ missing_dates_ranges = <<<<start_date, end_date>>>>

ChunkDays(chunk) == chunk[2] - chunk[1] + 1

(* C12: every chunk requested covers at least one day and at most max_len     *)
(* (93) days, counted as end - start + 1; none is empty or inverted.          *)
C12_ChunksWithinMaxSpan ==
    \A i \in DOMAIN sent :
        LET chunk == <<sent[i].request.start, sent[i].request.end>>
        IN  /\ chunk[1] <= chunk[2]
            /\ ChunkDays(chunk) >= 1
            /\ ChunkDays(chunk) <= max_len

(* C13: an interval of at most max_len days is requested unchanged as one     *)
(* chunk; a longer one is cut from its start: chunk i (from 0) starts at      *)
(* start + i * max_len, every chunk but the last is exactly max_len days      *)
(* long, and the last chunk ends at the interval's end.                       *)
C13_GreedyPartitionFromStart ==
    FetchedWholeRange =>
        \A code \in Uris :
            LET chunks == RangesSentTo(code)
            IN  IF ChunkDays(<<start_date, end_date>>) <= max_len
                THEN chunks = <<<<start_date, end_date>>>>
                ELSE /\ chunks # <<>>
                     /\ \A n \in DOMAIN chunks :
                           chunks[n][1] = start_date + (n - 1) * max_len
                     /\ \A n \in 1 .. (Len(chunks) - 1) : ChunkDays(chunks[n]) = max_len
                     /\ chunks[Len(chunks)][2] = end_date

----------------------------------------------------------------------------
(* Claims about the gaps *)

(* C14: the gaps returned by _calculate_missing_date_intervals are in         *)
(* ascending order, do not overlap, each has start <= end, and all lie        *)
(* inside the requested interval.                                             *)
C14_GapsOrderedInsideRange ==
    pc = "gaps_done" =>
        /\ \A i \in DOMAIN missing_dates_ranges :
              /\ start_date <= missing_dates_ranges[i][1]
              /\ missing_dates_ranges[i][1] <= missing_dates_ranges[i][2]
              /\ missing_dates_ranges[i][2] <= end_date
        /\ \A i \in 1 .. (Len(missing_dates_ranges) - 1) :
              missing_dates_ranges[i][2] < missing_dates_ranges[i + 1][1]

\* two gaps around a run of consecutive covered dates
C14_Witness ==
    /\ pc = "gaps_done"
    /\ Len(missing_dates_ranges) = 2
    /\ \E d \in covered : d + 1 \in covered
    /\ missing_dates_ranges[1][1] = start_date
    /\ missing_dates_ranges[2][2] = end_date

(* C15: when the coverage stream holds no date at all (it yields no chunk,   *)
(* or only an empty chunk), _calculate_missing_date_intervals returns exactly *)
(* the one gap (start, end) and does not fail.                                *)
C15_NoCoverageGivesWholeRange ==
    (pc \in {"gaps_done", "raised"} /\ Flatten(read_result) = <<>>) =>
        /\ pc = "gaps_done"
        /\ missing_dates_ranges = <<<<start_date, end_date>>>>

----------------------------------------------------------------------------
(* Merges that interleave *)

\* Record sets of several workers: one currency over an interval, or all
\* currencies of one date, so that the sets of two workers overlap.
MergeDates == 0 .. MaxMergeDay

WorkerInputs ==
    {SingleCurrencyRecords(c, iv[1], iv[2], r) :
        c \in Codes, iv \in Intervals(MergeDates), r \in Rates}
    \cup {AllCurrenciesRecords(d, r) : d \in MergeDates, r \in Rates}

\* a worker calls save_data_into_database(input_data)
StartMerge(input_data) ==
    /\ Len(merging) < MaxMerges
    /\ merging' = Append(merging, [input_data |-> input_data, written |-> 0])
    /\ op' = [name |-> "save", input |-> input_data, repeat |-> FALSE]
    /\ UNCHANGED <<db, first_merged, read_result, gatherVars, reportVars,
                   rate_series, largest, mainVars>>

\* The insert of worker w handles its next row: the uniqueness constraint on
\* (date, currency_code) is tested against the table as it is at that moment.
\* SQLite lets one writer at a time run its whole statement, which is the
\* case of a worker taking all its steps in a row.
MergeRow(w) ==
    /\ merging[w].written < Len(merging[w].input_data)
    /\ LET row == merging[w].input_data[merging[w].written + 1]
       IN  /\ db' = InsertRow(db, row)
           /\ first_merged' = FirstMerged(first_merged, <<row>>)
           /\ op' = [name |-> "insert", input |-> <<row>>, repeat |-> FALSE]
    /\ merging' = [merging EXCEPT ![w].written = @ + 1]
    /\ UNCHANGED <<read_result, gatherVars, reportVars, rate_series, largest, mainVars>>

MergeNext ==
    \/ \E input_data \in WorkerInputs : StartMerge(input_data)
    \/ \E w \in DOMAIN merging : MergeRow(w)

SpecMerge == StoreInit /\ [][MergeNext]_vars

\* every row handed to a merge so far
MergedRows == UNION {SeqToSet(merging[w].input_data) : w \in DOMAIN merging}

(* C16: while merges of overlapping record sets interleave, the store never   *)
(* holds two records with the same (date, currency_code), and every stored    *)
(* record is one of the records handed to a merge.                            *)
C16_InterleavedMergesKeepKeysUnique ==
    /\ \A r \in Rows(db) : CopiesIn(r, db) = 1
    /\ \A r1, r2 \in Rows(db) : Key(r1) = Key(r2) => r1 = r2
    /\ Rows(db) \subseteq MergedRows

\* two merges in progress at once, each has written a row, and one of them
\* holds a record whose key the other has stored with another rate
C16_Witness ==
    /\ Len(merging) >= 2
    /\ \E v, w \in DOMAIN merging :
          /\ v # w
          /\ merging[v].written >= 1
          /\ merging[v].written < Len(merging[v].input_data)
          /\ merging[w].written >= 1
          /\ \E i \in 1 .. merging[w].written :
                /\ Key(merging[w].input_data[i]) \in StoredKeys(db)
                /\ merging[w].input_data[i] \notin Rows(db)

----------------------------------------------------------------------------
(* _find_largest_increase_and_decrease on any series of rates *)

SeriesRates == (-3) .. 2

SeriesInit ==
    /\ rate_series \in UNION {[1 .. n -> SeriesRates] : n \in 0 .. MaxSeriesLen}
    /\ largest = <<>>
    /\ merging = <<>>
    /\ pc = "series"
    /\ db = EmptyBag
    /\ op = [name |-> "rows", input |-> <<>>, repeat |-> FALSE]
    /\ first_merged = {}
    /\ read_result = <<>>
    /\ start_date = 0 /\ end_date = 0 /\ currency_codes = <<>>
    /\ nbp = {} /\ db0 = EmptyBag /\ covered = {}
    /\ missing_dates_ranges = <<>> /\ sent = <<>> /\ last_send = NoSend
    /\ response = <<>> /\ consumed = 0 /\ data_collected = FALSE
    /\ ReportIdle
    /\ MainIdle

\* max_inc, max_dec = _find_largest_increase_and_decrease(df['currency_rate'])
FindLargest ==
    /\ pc = "series"
    /\ LET result == _find_largest_increase_and_decrease(rate_series)
       IN  largest' = <<[max_increase |-> result.max_increase,
                         max_decrease |-> result.max_decrease]>>
    /\ pc' = "series_done"
    /\ UNCHANGED <<storeVars, start_date, end_date, currency_codes, nbp, db0, covered,
                   missing_dates_ranges, sent, last_send, response, consumed,
                   data_collected, reportVars, merging, rate_series, mainVars>>

SpecSeries == SeriesInit /\ [][FindLargest]_vars

\* the largest number of a non-empty finite set
SetMax(S) == CHOOSE x \in S : \A y \in S : y <= x

\* the pairs of an earlier and a later place of a series
EarlierLater(rates) == {p \in (DOMAIN rates) \X (DOMAIN rates) : p[1] < p[2]}

C18_ZeroExactlyWhenNoRiseOrFall ==
    pc = "series_done" =>
        LET n == Len(rate_series)
            NeverRises == \A i \in 1 .. (n - 1) : rate_series[i + 1] <= rate_series[i]
            NeverFalls == \A i \in 1 .. (n - 1) : rate_series[i + 1] >= rate_series[i]
        IN  /\ (largest[1].max_increase = 0) <=> NeverRises
            /\ (largest[1].max_decrease = 0) <=> NeverFalls
            /\ (n = 1 \/ \A i, j \in 1 .. n : rate_series[i] = rate_series[j]) =>
                  /\ largest[1].max_increase = 0
                  /\ largest[1].max_decrease = 0

\* four equal rates
C18_Witness ==
    /\ pc = "series_done"
    /\ Len(rate_series) = 4
    /\ \A i \in 1 .. 4 : rate_series[i] = 1
    /\ largest[1].max_increase = 0
    /\ largest[1].max_decrease = 0

----------------------------------------------------------------------------
(* Claims about the global extrema *)

\* the currencies of the rows handed to the report, and each one's own best
\* increase and decrease over all its rows
ReportCodes == {row.currency_code : row \in SeqToSet(Flatten(df_iter))}

PerCurrency(code) ==
    _find_largest_increase_and_decrease(
        CurrencyRate(SelectSeq(Flatten(df_iter), LAMBDA row : row.currency_code = code)))

\* the first currency in processing order among those of a set
FirstOf(codes) == CHOOSE c \in codes : \A other \in codes : CodeRank(c) <= CodeRank(other)

(* C19: the global best increase is the largest of the per-currency best      *)
(* increases over all currencies of the input, held by the first currency in  *)
(* processing order that attains it (a tie keeps the earlier currency); the   *)
(* same, independently, for the global best decrease.                         *)
C19_GlobalBestIsFirstLargestPerCurrency ==
    (pc = "report_done" /\ ReportCodes # {}) =>
        LET best_inc == SetMax({PerCurrency(c).max_increase : c \in ReportCodes})
            best_dec == SetMax({PerCurrency(c).max_decrease : c \in ReportCodes})
            inc_code == FirstOf({c \in ReportCodes : PerCurrency(c).max_increase = best_inc})
            dec_code == FirstOf({c \in ReportCodes : PerCurrency(c).max_decrease = best_dec})
        IN  /\ analytical_data.max_recorded_increase = curr_map(PyTuple(inc_code), <<best_inc>>)
            /\ analytical_data.max_recorded_decrease = curr_map(PyTuple(dec_code), <<best_dec>>)

\* the extremum holds a currency code and a swing that is not negative
HasData(extremum) ==
    /\ extremum.curr_code # PyNone
    /\ extremum.value # <<>>
    /\ extremum.value[1] >= 0

(* C20: both extrema start as "no data", with the currency code None; once    *)
(* a record has been processed both hold a currency code and a value >= 0,    *)
(* so a swing of 0 with a currency code is never mistaken for no data.        *)
C20_ZeroSwingDiffersFromNoData ==
    pc \in {"report_done", "raised"} =>
        /\ \A k \in 0 .. Len(df_iter) :
              LET sofar == SubSeq(df_iter, 1, k)
                  result == _get_largest_exchange_rate_increase_and_decrease(sofar).value
              IN  IF Flatten(sofar) = <<>>
                  THEN /\ result.max_recorded_increase = NoExtremum
                       /\ result.max_recorded_decrease = NoExtremum
                  ELSE /\ HasData(result.max_recorded_increase)
                       /\ HasData(result.max_recorded_decrease)
        /\ Flatten(df_iter) # <<>> =>
              /\ HasData(analytical_data.max_recorded_increase)
              /\ HasData(analytical_data.max_recorded_decrease)

\* a read of equal rates in two chunks: both extrema are a swing of 0 with a
\* currency code
C20_Witness ==
    /\ pc = "report_done"
    /\ Len(df_iter) = 2
    /\ \A row \in SeqToSet(Flatten(df_iter)) : row.currency_rate = 2
    /\ analytical_data.max_recorded_increase.value = <<0>>
    /\ analytical_data.max_recorded_decrease.value = <<0>>
    /\ analytical_data.max_recorded_increase.curr_code # PyNone
    /\ analytical_data.max_recorded_decrease.curr_code # PyNone

----------------------------------------------------------------------------
(* Claims about the coverage scan *)

\* the currencies a query asks for: its filter, or every known currency
Wanted == IF currency_codes # <<>> THEN SeqToSet(currency_codes)
          ELSE SeqToSet(AVAILABLE_CURRENCIES)

\* the wanted currencies the table held for a date when the query started
HeldAt(d) == {r.currency_code : r \in {x \in Rows(db0) : x.date = d}} \cap Wanted

----------------------------------------------------------------------------
(* Claims about the normalisation of a response *)

(* C22: for either shape of a raw response the records merged are one per    *)
(* entry of its 'rates' list, in order, each with date, currency_code and     *)
(* currency_rate: for the single-currency shape the envelope's code with the  *)
(* entry's date and rate, for the all-currencies shape the envelope's date    *)
(* with the entry's code and rate.                                            *)
C22_OneRecordPerRatesEntry ==
    (op.name = "save" /\ consumed >= 1) =>
        LET raw == response[consumed]
            records == op.input
        IN  /\ Len(records) = Len(raw.rates)
            /\ \A i \in DOMAIN records :
                  /\ DOMAIN records[i] = {"date", "currency_code", "currency_rate"}
                  /\ records[i].currency_rate = raw.rates[i].mid
                  /\ IF "effectiveDate" \in DOMAIN raw
                     THEN /\ IsoFormat(records[i].date) = raw.effectiveDate
                          /\ records[i].currency_code = raw.rates[i].code
                     ELSE /\ IsoFormat(records[i].date) = raw.rates[i].effectiveDate
                          /\ records[i].currency_code = raw.code

\* a single-currency response with the rates of three dates has been merged
C22_Witness ==
    /\ op.name = "save"
    /\ consumed >= 1
    /\ "code" \in DOMAIN response[consumed]
    /\ Len(response[consumed].rates) = 3
    /\ Len(op.input) = 3

----------------------------------------------------------------------------
(* Claims about the order of requests and merges *)

\* the requests before the last one sent that delivered a response
DeliveredBeforeLast == {i \in 1 .. (Len(sent) - 1) : sent[i].delivered}

(* C23: the fetch is lazy: a request is issued only when the consumer's       *)
(* iteration reaches it, so whenever a request has been issued the responses  *)
(* of all requests before it have been taken, and merged, by the consumer.    *)
C23_RequestsIssuedOnDemand ==
    consumed >= Cardinality(DeliveredBeforeLast)

----------------------------------------------------------------------------
(* generate_report: the choice of the report writer, and the historical      *)
(* report in .json format                                                     *)

MaxReportRows == 3

\* [{'date': str(record['date']), 'rate': record['currency_rate']} for record in ...]
RatesList(df) ==
    [i \in DOMAIN df |-> [date |-> IsoFormat(df[i].date), rate |-> df[i].currency_rate]]

\* _generate_json_report_with_historical_data, lines 126-140: the loop over
\* the groups of one chunk.  The key of a group is a 1-tuple, the
\* 'currency_code' of an entry is currency_code[0], a str.
RECURSIVE JsonGroupLoop(_, _, _)
JsonGroupLoop(groups, first_iter, report) ==
    IF groups = <<>> THEN report
    ELSE LET currency_code == Head(groups).key
             currency_exchange_rates_list == RatesList(Head(groups).df)
             last == report[Len(report)]
         IN  IF /\ first_iter
                /\ report # <<>>
                /\ currency_code = last.currency_code
             THEN JsonGroupLoop(Tail(groups), FALSE,
                      [report EXCEPT ![Len(report)] =
                          [last EXCEPT !.rates = @ \o currency_exchange_rates_list]])
             ELSE JsonGroupLoop(Tail(groups), FALSE,
                      Append(report,
                             [currency_code |-> PyStr(Head(currency_code.tuple)),
                              rates |-> currency_exchange_rates_list]))

\* lines 123-140: the loop over the chunks
RECURSIVE JsonChunkLoop(_, _)
JsonChunkLoop(chunks, report) ==
    IF chunks = <<>> THEN report
    ELSE JsonChunkLoop(Tail(chunks), JsonGroupLoop(groupby(Head(chunks)), TRUE, report))

_generate_json_report_with_historical_data(chunks) == JsonChunkLoop(chunks, <<>>)

\* the report types and suffixes a caller may pass: the supported ones, and
\* one or two that stand for all the others
ReportTypes == {"h", "historical", "a", "analytical", "invalid"}

Extensions == {".csv", ".json", ".txt", ""}

GenerateRates == {1, 2}

\* the results of the read of a report: rows in (currency_code, date) order
GenerateReads ==
    UNION {{SeriesRows("EUR", a) \o SeriesRows("USD", b) :
               b \in UNION {[1 .. k -> GenerateRates] : k \in 0 .. (MaxReportRows - Len(a))}} :
           a \in UNION {[1 .. k -> GenerateRates] : k \in 0 .. MaxReportRows}}

GenerateInit ==
    /\ \E rows \in GenerateReads : df_iter \in Streams(rows)
    /\ report_type \in ReportTypes
    /\ extension \in Extensions
    /\ invoked = <<>>
    /\ json_report = <<>>
    /\ args = [start_date |-> <<>>, end_date |-> <<>>]
    /\ today = 0
    /\ analytical_data = [max_recorded_increase |-> NoExtremum,
                          max_recorded_decrease |-> NoExtremum]
    /\ pc = "generate"
    /\ CallsIdle
    /\ db = EmptyBag
    /\ op = [name |-> "rows", input |-> <<>>, repeat |-> FALSE]
    /\ first_merged = {}
    /\ read_result = <<>>
    /\ start_date = 0 /\ end_date = 0 /\ currency_codes = <<>>
    /\ nbp = {} /\ db0 = EmptyBag /\ covered = {}
    /\ missing_dates_ranges = <<>> /\ sent = <<>> /\ last_send = NoSend
    /\ response = <<>> /\ consumed = 0 /\ data_collected = FALSE

\* generate_report, lines 40-64, on the chunks the read returned
GenerateReport ==
    /\ pc = "generate"
    /\ LET analytics == _get_largest_exchange_rate_increase_and_decrease(df_iter)
       IN  CASE report_type \in {"h", "historical"} ->
                    /\ CASE extension = ".json" ->
                                 /\ invoked' = <<"_generate_json_report_with_historical_data">>
                                 /\ json_report' =
                                        _generate_json_report_with_historical_data(df_iter)
                                 /\ pc' = "generated"
                         [] extension = ".csv" ->
                                 /\ invoked' = <<"_generate_csv_report_with_historical_data">>
                                 /\ pc' = "generated"
                                 /\ UNCHANGED json_report
                         [] OTHER ->
                                 /\ pc' = "SystemExit"
                                 /\ UNCHANGED <<invoked, json_report>>
                    /\ UNCHANGED analytical_data
             [] report_type \in {"a", "analytical"} ->
                    /\ analytical_data' = analytics.value
                    /\ UNCHANGED json_report
                    /\ CASE analytics.raised # None ->
                                 /\ pc' = "raised"
                                 /\ UNCHANGED invoked
                         [] analytics.raised = None /\ extension = ".json" ->
                                 /\ invoked' = <<"_generate_json_report_with_analytical_data">>
                                 /\ pc' = "generated"
                         [] analytics.raised = None /\ extension = ".csv" ->
                                 /\ invoked' = <<"_generate_csv_report_with_analytical_data">>
                                 /\ pc' = "generated"
                         [] OTHER ->
                                 /\ pc' = "SystemExit"
                                 /\ UNCHANGED invoked
             [] OTHER ->
                    /\ pc' = "SystemExit"
                    /\ UNCHANGED <<invoked, json_report, analytical_data>>
    /\ UNCHANGED <<storeVars, start_date, end_date, currency_codes, nbp, db0, covered,
                   missing_dates_ranges, sent, last_send, response, consumed,
                   data_collected, df_iter, callVars, args, today, report_type, extension>>

SpecGenerate == GenerateInit /\ [][GenerateReport]_vars

\* the writer the documentation of generate_report names for a type and a suffix
Writer(type, suffix) ==
    "_generate" \o (IF suffix = ".json" THEN "_json" ELSE "_csv") \o "_report_with"
    \o (IF type \in {"h", "historical"} THEN "_historical" ELSE "_analytical") \o "_data"

(* C24: generate_report raises SystemExit for a report type other than h,     *)
(* historical, a, analytical and for a file extension other than .csv and     *)
(* .json, and then invokes no report writer; for a supported type and         *)
(* extension it invokes exactly the one matching writer, once.                *)
C24_ExactlyTheMatchingWriter ==
    pc # "generate" =>
        IF /\ report_type \in {"h", "historical", "a", "analytical"}
           /\ extension \in {".csv", ".json"}
        THEN invoked = <<Writer(report_type, extension)>>
        ELSE pc = "SystemExit" /\ invoked = <<>>

\* the currencies of the rows read
InputCodes == {row.currency_code : row \in SeqToSet(Flatten(df_iter))}

\* the rows of one currency, in the order read
RowsOfCurrency(c) == SelectSeq(Flatten(df_iter), LAMBDA row : row.currency_code = c)

\* the entries of the report for one currency
EntriesOf(c) == {i \in DOMAIN json_report : json_report[i].currency_code = PyStr(c)}

(* C25: in the historical .json report every currency of the input has       *)
(* exactly one entry, holding all its rates in date order, also when the rows *)
(* of the currency are divided between consecutive chunks: the rows continued *)
(* in the next chunk are appended to the existing entry.                      *)
C25_OneEntryPerCurrency ==
    (pc = "generated" /\ invoked = <<"_generate_json_report_with_historical_data">>) =>
        \A c \in InputCodes :
            /\ Cardinality(EntriesOf(c)) = 1
            /\ \A i \in EntriesOf(c) : json_report[i].rates = RatesList(RowsOfCurrency(c))

----------------------------------------------------------------------------
(* _calculate_missing_date_intervals on any division of the covered dates    *)
(* into chunks                                                                *)

\* a stream of non-empty chunks with an empty chunk put after any of them
RECURSIVE WithEmptyChunks(_)
WithEmptyChunks(stream) ==
    IF stream = <<>> THEN {<<>>}
    ELSE UNION {{<<Head(stream)>> \o rest, <<Head(stream), <<>>>> \o rest} :
                rest \in WithEmptyChunks(Tail(stream))}

\* every division of a non-empty sequence of dates into chunks: the first
\* chunk holds a date, empty chunks come between or after non-empty ones
Divisions(dates) == UNION {WithEmptyChunks(stream) : stream \in Cuts(dates)}

GapChunksInit ==
    \E iv \in Intervals(GapDays) :
        \E C \in (SUBSET DatesOf(iv[1], iv[2])) \ {{}} :
            \E stream \in Divisions(SortedDates(C)) : GapStart(iv, C, stream)

SpecGapChunks == GapChunksInit /\ [][CalculateMissing]_vars

(* C26: the result of _calculate_missing_date_intervals depends only on the   *)
(* concatenated sequence of covered dates: for every non-empty sequence and   *)
(* every division of it into chunks, empty chunks between or after non-empty  *)
(* ones included, the call returns the gaps it returns when the whole         *)
(* sequence arrives as one chunk.                                             *)
C26_GapsIndependentOfChunking ==
    /\ pc # "raised"
    /\ pc = "gaps_done" =>
          missing_dates_ranges =
              _calculate_missing_date_intervals(start_date, end_date,
                                                <<SortedDates(covered)>>).value

----------------------------------------------------------------------------
(* Claims about what a query requests and what it leaves in the store *)

(* C27: every interval requested from the remote source during                *)
(* gather_data_for_date_range lies inside the requested range and holds no    *)
(* date that the coverage scan reported as covered; when every date of the    *)
(* range is covered, no request is issued and the store is left unchanged.    *)
C27_RequestsOnlyForMissingDates ==
    /\ \A i \in DOMAIN sent :
          /\ start_date <= sent[i].request.start
          /\ sent[i].request.start <= sent[i].request.end
          /\ sent[i].request.end <= end_date
          /\ DatesOf(sent[i].request.start, sent[i].request.end) \cap covered = {}
    /\ (pc # "gather" /\ covered = DatesOf(start_date, end_date)) =>
          /\ pc = "returned"
          /\ sent = <<>>
          /\ db = db0

\* the first and the last date of the range are covered, and the date between
\* them has been requested
C27_Witness ==
    /\ covered = {start_date, end_date}
    /\ end_date = start_date + 2
    /\ Len(sent) >= 1
    /\ sent[1].request.start = start_date + 1
    /\ sent[1].request.end = start_date + 1

(* C28: when gather_data_for_date_range aborts with SystemExit, the store     *)
(* holds exactly the records it held before the call: an aborted query has    *)
(* merged nothing.                                                            *)
C28_AbortedQueryMergesNothing ==
    pc = "SystemExit" => db = db0

\* a query over a cache that holds records, none of a covered date, was
\* aborted after its requests
C28_Witness ==
    /\ pc = "SystemExit"
    /\ db0 # EmptyBag
    /\ db = db0
    /\ Len(sent) >= 1

----------------------------------------------------------------------------
(* Claims about inputs without records and about the dates of the command line *)

(* C29: on an input without any record (no chunk, or the single empty chunk   *)
(* of an empty query result) _get_largest_exchange_rate_increase_and_decrease *)
(* does not fail and returns both extrema as "no data" with currency code     *)
(* none.                                                                      *)
C29_NoRecordsGiveNoData ==
    (pc # "report" /\ Flatten(df_iter) = <<>>) =>
        /\ pc = "report_done"
        /\ analytical_data = [max_recorded_increase |-> NoExtremum,
                              max_recorded_decrease |-> NoExtremum]

----------------------------------------------------------------------------
(* main: validate_and_convert_date_args on any pair of date arguments *)

MaxArgDay == 5

\* date(2002, 1, 2), on a scale of days from 2001-12-31
first_available_date == 2

\* the days a user may name, before and after the first available date
ArgDays == 0 .. MaxArgDay

\* what the user types for a day: the date as YYYY-MM-DD, or in another format
ArgTexts == {IsoFormat(d) : d \in ArgDays} \cup {<<"%d.%m.%Y", 1>>}

\* convert_date_type: datetime.strptime(arg, '%Y-%m-%d').date(), SystemExit on ValueError
convert_date_type(arg) ==
    IF arg[1] = "%Y-%m-%d"
    THEN [value |-> Strptime(arg), raised |-> None]
    ELSE [value |-> arg, raised |-> "SystemExit"]

ArgsInit ==
    /\ args \in [start_date : ArgTexts, end_date : ArgTexts]
    /\ today \in first_available_date .. MaxArgDay
    /\ report_type = "" /\ extension = ""
    /\ invoked = <<>>
    /\ json_report = <<>>
    /\ pc = "validate"
    /\ ReportIdle
    /\ CallsIdle
    /\ db = EmptyBag
    /\ op = [name |-> "create", input |-> <<>>, repeat |-> FALSE]
    /\ first_merged = {}
    /\ read_result = <<>>
    /\ start_date = 0 /\ end_date = 0 /\ currency_codes = <<>>
    /\ nbp = {} /\ db0 = EmptyBag /\ covered = {}
    /\ missing_dates_ranges = <<>> /\ sent = <<>> /\ last_send = NoSend
    /\ response = <<>> /\ consumed = 0 /\ data_collected = FALSE

\* validate_and_convert_date_args, lines 38-50: the conversions, the order check, the clamping
validate_and_convert_date_args ==
    /\ pc = "validate"
    /\ LET start == convert_date_type(args.start_date)
           end == convert_date_type(args.end_date)
       IN  IF start.raised # None
           THEN pc' = "SystemExit" /\ UNCHANGED args
           ELSE IF end.raised # None
           THEN /\ pc' = "SystemExit"
                /\ args' = [args EXCEPT !.start_date = start.value]
           ELSE IF start.value > end.value
           THEN /\ pc' = "SystemExit"
                /\ args' = [start_date |-> start.value, end_date |-> end.value]
           ELSE /\ pc' = "validated"
                /\ args' = [start_date |-> IF start.value < first_available_date
                                           THEN first_available_date
                                           ELSE start.value,
                            end_date |-> IF end.value > today THEN today ELSE end.value]
    /\ UNCHANGED <<storeVars, start_date, end_date, currency_codes, nbp, db0, covered,
                   missing_dates_ranges, sent, last_send, response, consumed,
                   data_collected, reportVars, callVars, today, report_type, extension,
                   invoked, json_report>>

SpecArgs == ArgsInit /\ [][validate_and_convert_date_args]_vars

(* C30: for every pair of user-supplied dates, when                           *)
(* validate_and_convert_date_args returns without SystemExit the interval     *)
(* passed on satisfies 2002-01-02 <= start_date <= end_date <= today:         *)
(* clamping never produces an inverted interval.                              *)
C30_ValidatedIntervalIsOrdered ==
    pc = "validated" =>
        /\ first_available_date <= args.start_date
        /\ args.start_date <= args.end_date
        /\ args.end_date <= today

====
